---- MODULE Spec2Model ----
(***************************************************************************)
(* Model of pyModeS/decoder/adsb.py: the typecode-driven dispatch and the  *)
(* NIC / NAC / SIL / version decode tables for ADS-B messages.             *)
(*                                                                         *)
(* A message is a Python str of 28 hexadecimal digits.  A Python str is    *)
(* modelled as a sequence of one-character strings; indexing a str gives a *)
(* str of length one, slicing gives a (possibly empty) str.                *)
(***************************************************************************)
EXTENDS Integers, Sequences, FiniteSets, TLC

VARIABLES msg, pc, fn, msg1, nums, refs, ret

vars == <<msg, pc, fn, msg1, nums, refs, ret>>

(***************************************************************************)
(* Bounds of the model                                                     *)
(***************************************************************************)
\* payload patterns 0..MaxSeed are combined with every value of the two
\* hex digits that hold the type code and bits 37..39
MaxSeed == 3
\* the version argument of sil ranges over 0..MaxVersionArg
MaxVersionArg == 2

(***************************************************************************)
(* Python strings and numbers                                              *)
(***************************************************************************)
HexChars == <<"0", "1", "2", "3", "4", "5", "6", "7",
              "8", "9", "A", "B", "C", "D", "E", "F">>

HexDigitValue == [c \in {HexChars[k] : k \in 1..16} |->
                     (CHOOSE k \in 1..16 : HexChars[k] = c) - 1]

\* int(c, 16) of one hex digit
HexVal(c) == HexDigitValue[c]

Pow2(n) == IF n = 0 THEN 1
           ELSE IF n = 1 THEN 2
           ELSE IF n = 2 THEN 4
           ELSE 8

\* s[a:b] of a Python str, 0 <= a <= b: the slice is clipped to the string
Slice(s, a, b) ==
    LET hi == IF b < Len(s) THEN b ELSE Len(s)
    IN  IF a >= hi THEN <<>> ELSE [i \in 1..(hi - a) |-> s[a + i]]

\* s[i] of a Python str: a str of length one
Index(s, i) == <<s[i + 1]>>

\* truth value of a Python str in a condition: only the empty str is false
StrTruthy(s) == Len(s) > 0

\* truth value of a Python int in a condition
IntTruthy(x) == x # 0

\* an optional number is <<>> (None) or <<x>>; not None -> True, not 0 -> True
PyNot(opt) == opt = <<>> \/ opt[1] = 0

(***************************************************************************)
(* pyModeS.decoder.common: the bit utilities and the frame accessors        *)
(***************************************************************************)
\* hex2bin: the binary expansion, four characters "0"/"1" per hex digit
hex2bin(hexstr) ==
    [i \in 1..(4 * Len(hexstr)) |->
        IF (HexVal(hexstr[((i - 1) \div 4) + 1]) \div Pow2(3 - ((i - 1) % 4))) % 2 = 1
        THEN "1" ELSE "0"]

\* int(binstr, 2) accepts a non-empty str of binary digits, else ValueError
bin2intOk(binstr) ==
    Len(binstr) > 0 /\ \A i \in 1..Len(binstr) : binstr[i] \in {"0", "1"}

RECURSIVE bin2int(_)
bin2int(binstr) ==
    IF Len(binstr) = 0 THEN 0
    ELSE 2 * bin2int(SubSeq(binstr, 1, Len(binstr) - 1))
         + (IF binstr[Len(binstr)] = "1" THEN 1 ELSE 0)

\* int(s) of a one-character str holding a decimal digit
pyint(s) == IF s[1] = "1" THEN 1 ELSE 0

common_df(m) == bin2int(Slice(hex2bin(m), 0, 5))

common_icao(m) == bin2int(Slice(hex2bin(m), 8, 32))

common_typecode(m) == bin2int(Slice(hex2bin(m), 32, 37))

(***************************************************************************)
(* Outcomes of a call: a value, None, a raised error, or the value of the  *)
(* collaborator the call returns (which collaborator, with which arguments)*)
(***************************************************************************)
Outcome(st, v, callee, m0, m1, aux) ==
    [st |-> st, v |-> v, callee |-> callee, m0 |-> m0, m1 |-> m1, aux |-> aux]

Ok(v) == Outcome("ok", v, "", <<>>, <<>>, <<>>)

None == Outcome("none", <<>>, "", <<>>, <<>>, <<>>)

Raise(e) == Outcome(e, <<>>, "", <<>>, <<>>, <<>>)

Returns(callee, m0, m1, aux) == Outcome("ret", <<>>, callee, m0, m1, aux)

NoOutcome == Outcome("", <<>>, "", <<>>, <<>>, <<>>)

ErrRefRequired == "RuntimeError: reference position required"
ErrInconsistent == "RuntimeError: incorrect or inconsistant message types"
ErrNotPosition == "RuntimeError: Not a position message"
ErrVelocityType == "RuntimeError: expecting 4<TC<9 or TC=19"
ErrNotAirborne == "RuntimeError: expecting 8<TC<19"
ErrNotPositionTC == "RuntimeError: expecting 5..22"
ErrNotOpStatus == "RuntimeError: expecting TC = 31"
ErrNotStatus == "RuntimeError: expecting TC = 29 or 31"
ErrNotVelocity == "RuntimeError: expecting TC = 19"
ValueError == "ValueError"

Errors == {ErrRefRequired, ErrInconsistent, ErrNotPosition, ErrVelocityType,
           ErrNotAirborne, ErrNotPositionTC, ErrNotOpStatus, ErrNotStatus,
           ErrNotVelocity, ValueError}

IsError(r) == r.st \in Errors

(***************************************************************************)
(* adsb.py                                                                 *)
(***************************************************************************)
df(m) == common_df(m)

icao(m) == common_icao(m)

typecode(m) == common_typecode(m)

\* position with the two airborne bands tested as the single range 9..22
position_OneAirborneBand(m0, m1, t0, t1, lat_ref, lon_ref) ==
    LET tc0 == typecode(m0)
        tc1 == typecode(m1)
    IN  IF 5 <= tc0 /\ tc0 <= 8 /\ 5 <= tc1 /\ tc1 <= 8
        THEN IF PyNot(lat_ref) \/ PyNot(lon_ref)
             THEN Raise(ErrRefRequired)
             ELSE Returns("surface_position", m0, m1,
                          <<t0, t1, lat_ref[1], lon_ref[1]>>)
        ELSE IF 9 <= tc0 /\ tc0 <= 22 /\ 9 <= tc1 /\ tc1 <= 22
        THEN Returns("airborne_position", m0, m1, <<t0, t1>>)
        ELSE Raise(ErrInconsistent)

position(m0, m1, t0, t1, lat_ref, lon_ref) ==
    LET tc0 == typecode(m0)
        tc1 == typecode(m1)
    IN  IF 5 <= tc0 /\ tc0 <= 8 /\ 5 <= tc1 /\ tc1 <= 8
        THEN IF PyNot(lat_ref) \/ PyNot(lon_ref)
             THEN Raise(ErrRefRequired)
             ELSE Returns("surface_position", m0, m1,
                          <<t0, t1, lat_ref[1], lon_ref[1]>>)
        ELSE IF 9 <= tc0 /\ tc0 <= 18 /\ 9 <= tc1 /\ tc1 <= 18
        THEN Returns("airborne_position", m0, m1, <<t0, t1>>)
        ELSE IF 20 <= tc0 /\ tc0 <= 22 /\ 20 <= tc1 /\ tc1 <= 22
        THEN Returns("airborne_position", m0, m1, <<t0, t1>>)
        ELSE Raise(ErrInconsistent)

position_with_ref(m, lat_ref, lon_ref) ==
    LET tc == typecode(m)
    IN  IF 5 <= tc /\ tc <= 8
        THEN Returns("surface_position_with_ref", m, <<>>, <<lat_ref, lon_ref>>)
        ELSE IF (9 <= tc /\ tc <= 18) \/ (20 <= tc /\ tc <= 22)
        THEN Returns("airborne_position_with_ref", m, <<>>, <<lat_ref, lon_ref>>)
        ELSE Raise(ErrInconsistent)

\* altitude without the test for TC 19
altitude_NoTC19Test(m) ==
    LET tc == typecode(m)
        msgbin == hex2bin(m)
        q == Index(msgbin, 47)
        n == bin2int(Slice(msgbin, 40, 47) \o Slice(msgbin, 48, 52))
    IN  IF tc < 5 \/ tc > 22 THEN Raise(ErrNotPosition)
        ELSE IF tc >= 5 /\ tc <= 8 THEN Ok(<<0>>)
        ELSE IF StrTruthy(q) THEN Ok(<<n * 25 - 1000>>)
        ELSE None

\* altitude with the Q-bit left inside the altitude field
altitude_QBitInField(m) ==
    LET tc == typecode(m)
        msgbin == hex2bin(m)
        q == Index(msgbin, 47)
        n == bin2int(Slice(msgbin, 40, 52))
    IN  IF tc < 5 \/ tc = 19 \/ tc > 22 THEN Raise(ErrNotPosition)
        ELSE IF tc >= 5 /\ tc <= 8 THEN Ok(<<0>>)
        ELSE IF StrTruthy(q) THEN Ok(<<n * 25 - 1000>>)
        ELSE None

altitude(m) ==
    LET tc == typecode(m)
        msgbin == hex2bin(m)
        q == Index(msgbin, 47)
        n == bin2int(Slice(msgbin, 40, 47) \o Slice(msgbin, 48, 52))
    IN  IF tc < 5 \/ tc = 19 \/ tc > 22 THEN Raise(ErrNotPosition)
        ELSE IF tc >= 5 /\ tc <= 8 THEN Ok(<<0>>)
        ELSE IF StrTruthy(q) THEN Ok(<<n * 25 - 1000>>)
        ELSE None

velocity(m) ==
    IF 5 <= typecode(m) /\ typecode(m) <= 8
    THEN Returns("surface_velocity", m, <<>>, <<>>)
    ELSE IF typecode(m) = 19
    THEN Returns("airborne_velocity", m, <<>>, <<>>)
    ELSE Raise(ErrVelocityType)

\* the first two components of the tuple velocity returns
speed_heading(m) ==
    LET r == velocity(m)
    IN  IF IsError(r) THEN r
        ELSE Returns(r.callee, r.m0, r.m1, <<0, 1>>)

\* nic with the supplement read one bit early
nic_SupplementBit38(m) ==
    LET msgbin == hex2bin(m)
        tc == typecode(m)
        nic_sup_b == bin2int(Index(msgbin, 38))
    IN  IF typecode(m) < 9 \/ typecode(m) > 18 THEN Raise(ErrNotAirborne)
        ELSE IF tc \in {0, 18, 22} THEN Ok(<<0>>)
        ELSE IF tc = 17 THEN Ok(<<1>>)
        ELSE IF tc = 16 THEN (IF IntTruthy(nic_sup_b) THEN Ok(<<3>>) ELSE Ok(<<2>>))
        ELSE IF tc = 15 THEN Ok(<<4>>)
        ELSE IF tc = 14 THEN Ok(<<5>>)
        ELSE IF tc = 13 THEN Ok(<<6>>)
        ELSE IF tc = 12 THEN Ok(<<7>>)
        ELSE IF tc = 11 THEN (IF IntTruthy(nic_sup_b) THEN Ok(<<9>>) ELSE Ok(<<8>>))
        ELSE IF tc \in {10, 21} THEN Ok(<<10>>)
        ELSE IF tc \in {9, 20} THEN Ok(<<11>>)
        ELSE Ok(<<-1>>)

nic(m) ==
    LET msgbin == hex2bin(m)
        tc == typecode(m)
        nic_sup_b == bin2int(Index(msgbin, 39))
    IN  IF typecode(m) < 9 \/ typecode(m) > 18 THEN Raise(ErrNotAirborne)
        ELSE IF tc \in {0, 18, 22} THEN Ok(<<0>>)
        ELSE IF tc = 17 THEN Ok(<<1>>)
        ELSE IF tc = 16 THEN (IF IntTruthy(nic_sup_b) THEN Ok(<<3>>) ELSE Ok(<<2>>))
        ELSE IF tc = 15 THEN Ok(<<4>>)
        ELSE IF tc = 14 THEN Ok(<<5>>)
        ELSE IF tc = 13 THEN Ok(<<6>>)
        ELSE IF tc = 12 THEN Ok(<<7>>)
        ELSE IF tc = 11 THEN (IF IntTruthy(nic_sup_b) THEN Ok(<<9>>) ELSE Ok(<<8>>))
        ELSE IF tc \in {10, 21} THEN Ok(<<10>>)
        ELSE IF tc \in {9, 20} THEN Ok(<<11>>)
        ELSE Ok(<<-1>>)

oe_flag(m) ==
    LET msgbin == hex2bin(m)
    IN  Ok(<<pyint(Index(msgbin, 53))>>)

nic_v1(m, nic_sup_b) ==
    LET tc == typecode(m)
    IN  IF typecode(m) < 5 \/ typecode(m) > 22 THEN Raise(ErrNotPositionTC)
        ELSE IF tc \in {0, 8, 18, 22} THEN Ok(<<0>>)
        ELSE IF tc = 17 THEN Ok(<<1>>)
        ELSE IF tc = 16 THEN (IF IntTruthy(nic_sup_b) THEN Ok(<<3>>) ELSE Ok(<<2>>))
        ELSE IF tc = 15 THEN Ok(<<4>>)
        ELSE IF tc = 14 THEN Ok(<<5>>)
        ELSE IF tc = 13 THEN (IF IntTruthy(nic_sup_b) THEN Ok(<<6>>) ELSE Ok(<<6>>))
        ELSE IF tc = 12 THEN Ok(<<7>>)
        ELSE IF tc = 11 THEN (IF IntTruthy(nic_sup_b) THEN Ok(<<9>>) ELSE Ok(<<8>>))
        ELSE IF tc \in {6, 10, 21} THEN Ok(<<10>>)
        ELSE IF tc \in {5, 9, 20} THEN Ok(<<11>>)
        ELSE IF tc = 7 THEN (IF IntTruthy(nic_sup_b) THEN Ok(<<9>>) ELSE Ok(<<8>>))
        ELSE Ok(<<-1>>)

\* nic_v2 with the TC 8 branch nested on nic_b where the code tests nic_c
nic_v2_TC8OnNicB(m, nic_a, nic_b, nic_c) ==
    LET tc == typecode(m)
    IN  IF typecode(m) < 5 \/ typecode(m) > 22 THEN Raise(ErrNotPositionTC)
        ELSE IF tc \in {0, 18, 22} THEN Ok(<<0>>)
        ELSE IF tc = 17 THEN Ok(<<1>>)
        ELSE IF tc = 16 THEN (IF IntTruthy(nic_a) THEN Ok(<<3>>) ELSE Ok(<<2>>))
        ELSE IF tc = 15 THEN Ok(<<4>>)
        ELSE IF tc = 14 THEN Ok(<<5>>)
        ELSE IF tc = 13 THEN Ok(<<6>>)
        ELSE IF tc = 12 THEN Ok(<<7>>)
        ELSE IF tc = 11 THEN (IF IntTruthy(nic_a) THEN Ok(<<9>>) ELSE Ok(<<8>>))
        ELSE IF tc \in {6, 10, 21} THEN Ok(<<10>>)
        ELSE IF tc \in {5, 9, 20} THEN Ok(<<11>>)
        ELSE IF tc = 8
             THEN (IF IntTruthy(nic_a)
                   THEN (IF IntTruthy(nic_b) THEN Ok(<<7>>) ELSE Ok(<<6>>))
                   ELSE (IF IntTruthy(nic_b) THEN Ok(<<6>>) ELSE Ok(<<0>>)))
        ELSE IF tc = 7 THEN (IF IntTruthy(nic_a) THEN Ok(<<9>>) ELSE Ok(<<8>>))
        ELSE Ok(<<-1>>)

nic_v2(m, nic_a, nic_b, nic_c) ==
    LET tc == typecode(m)
    IN  IF typecode(m) < 5 \/ typecode(m) > 22 THEN Raise(ErrNotPositionTC)
        ELSE IF tc \in {0, 18, 22} THEN Ok(<<0>>)
        ELSE IF tc = 17 THEN Ok(<<1>>)
        ELSE IF tc = 16 THEN (IF IntTruthy(nic_a) THEN Ok(<<3>>) ELSE Ok(<<2>>))
        ELSE IF tc = 15 THEN Ok(<<4>>)
        ELSE IF tc = 14 THEN Ok(<<5>>)
        ELSE IF tc = 13
             THEN (IF IntTruthy(nic_a) THEN Ok(<<6>>)
                   ELSE IF IntTruthy(nic_b) THEN Ok(<<6>>) ELSE Ok(<<6>>))
        ELSE IF tc = 12 THEN Ok(<<7>>)
        ELSE IF tc = 11 THEN (IF IntTruthy(nic_a) THEN Ok(<<9>>) ELSE Ok(<<8>>))
        ELSE IF tc \in {6, 10, 21} THEN Ok(<<10>>)
        ELSE IF tc \in {5, 9, 20} THEN Ok(<<11>>)
        ELSE IF tc = 8
             THEN (IF IntTruthy(nic_a)
                   THEN (IF IntTruthy(nic_c) THEN Ok(<<7>>) ELSE Ok(<<6>>))
                   ELSE (IF IntTruthy(nic_c) THEN Ok(<<6>>) ELSE Ok(<<0>>)))
        ELSE IF tc = 7 THEN (IF IntTruthy(nic_a) THEN Ok(<<9>>) ELSE Ok(<<8>>))
        ELSE Ok(<<-1>>)

nic_s(m) ==
    LET msgbin == hex2bin(m)
    IN  IF typecode(m) # 31 THEN Raise(ErrNotOpStatus)
        ELSE Ok(<<bin2int(Index(msgbin, 75))>>)

\* nic_a_and_c with NICc read at bit 53 where the code reads bit 51
nic_a_and_c_NICcAtBit53(m) ==
    LET msgbin == hex2bin(m)
    IN  IF typecode(m) # 31 THEN Raise(ErrNotOpStatus)
        ELSE Ok(<<bin2int(Index(msgbin, 75)), bin2int(Index(msgbin, 53))>>)

nic_a_and_c(m) ==
    LET msgbin == hex2bin(m)
    IN  IF typecode(m) # 31 THEN Raise(ErrNotOpStatus)
        ELSE Ok(<<bin2int(Index(msgbin, 75)), bin2int(Index(msgbin, 51))>>)

nic_b(m) ==
    LET msgbin == hex2bin(m)
    IN  IF typecode(m) < 9 \/ typecode(m) > 18 THEN Raise(ErrNotAirborne)
        ELSE Ok(<<bin2int(Index(msgbin, 39))>>)

nac_p(m) ==
    LET msgbin == hex2bin(m)
        tc == typecode(m)
    IN  IF typecode(m) \notin {29, 31} THEN Raise(ErrNotStatus)
        ELSE IF tc = 29 THEN Ok(<<bin2int(Slice(msgbin, 71, 75))>>)
        ELSE IF tc = 31 THEN Ok(<<bin2int(Slice(msgbin, 76, 80))>>)
        ELSE Ok(<<-1>>)

nac_v(m) ==
    LET msgbin == hex2bin(m)
        tc == typecode(m)
    IN  IF typecode(m) # 19 THEN Raise(ErrNotVelocity)
        ELSE IF tc = 19 THEN Ok(<<bin2int(Slice(msgbin, 42, 45))>>)
        ELSE Ok(<<-1>>)

\* sil(msg, version): the TC = 31 branch slices msg, the hex str, not msgbin
sil(m, version_arg) ==
    LET msgbin == hex2bin(m)
        tc == typecode(m)
        silbits == IF tc = 29 THEN Slice(msgbin, 76, 78) ELSE Slice(m, 82, 84)
        sils == IF version_arg = 2
                THEN (IF typecode(m) = 29 THEN bin2int(Index(msgbin, 39))
                      ELSE bin2int(Index(msgbin, 86)))
                ELSE -1
    IN  IF typecode(m) \notin {29, 31} THEN Raise(ErrNotStatus)
        ELSE IF ~bin2intOk(silbits) THEN Raise(ValueError)
        ELSE Ok(<<bin2int(silbits), sils>>)

\* version with the field sliced one bit early, four bits wide
version_SliceFrom71(m) ==
    LET msgbin == hex2bin(m)
    IN  IF typecode(m) \notin {29, 31} THEN Raise(ErrNotStatus)
        ELSE Ok(<<bin2int(Slice(msgbin, 71, 75))>>)

version(m) ==
    LET msgbin == hex2bin(m)
    IN  IF typecode(m) \notin {29, 31} THEN Raise(ErrNotStatus)
        ELSE IF typecode(m) \in {29, 31} THEN Ok(<<bin2int(Slice(msgbin, 72, 75))>>)
        ELSE Ok(<<-1>>)

(***************************************************************************)
(* The messages and arguments the calls are made with                      *)
(***************************************************************************)
\* DF = 17 and an ICAO address, hex digits 0..7 of every message
Header == <<"8", "D", "4", "0", "0", "5", "8", "B">>

\* hex digits 10..27 of the payload pattern of seed 0; its altitude field
\* holds N = 190 with the Q-bit set
BasePayload == <<1, 7, 14, 2, 13, 6, 9, 0, 4, 8, 10, 12, 2, 8, 6, 3, 10, 7>>

\* hex digit i (10..27) of the payload pattern of seed k
PayloadDigit(i, k) == (BasePayload[i - 9] + k * (2 * i + 1)) % 16

\* the message with hex digits d8, d9 (type code and bits 37..39) and seed k
Frame(d8, d9, k) ==
    Header \o <<HexChars[d8 + 1], HexChars[d9 + 1]>>
           \o [j \in 1..18 |-> HexChars[PayloadDigit(j + 9, k) + 1]]

\* values of hex digit 9: the low bit of the type code and bit 39
Digit9Values == {0, 1, 8, 9}

Messages == {Frame(d8, d9, k) : d8 \in 0..15, d9 \in Digit9Values, k \in 0..MaxSeed}

\* the message m with its type code replaced by tc
WithTC(m, tc) ==
    [m EXCEPT ![9] = HexChars[(tc \div 2) + 1],
              ![10] = HexChars[((tc % 2) * 8 + (HexVal(m[10]) % 8)) + 1]]

\* reference coordinates: absent (None), or a number of degrees
RefNumbers == {0, 52}

OptRefs == {<<>>} \cup {<<x>> : x \in RefNumbers}

Timestamps == {<<0, 1>>}

SupBits == {0, 1}

VersionArgs == 0..MaxVersionArg

(***************************************************************************)
(* One action per entry point: a call on the current message               *)
(***************************************************************************)
Init ==
    /\ msg \in Messages
    /\ pc = "idle"
    /\ fn = ""
    /\ msg1 = <<>>
    /\ nums = <<>>
    /\ refs = <<>>
    /\ ret = NoOutcome

Called(name, m1, ns, rs, r) ==
    /\ pc = "idle"
    /\ pc' = "done"
    /\ fn' = name
    /\ msg1' = m1
    /\ nums' = ns
    /\ refs' = rs
    /\ ret' = r
    /\ UNCHANGED msg

Call_df == Called("df", <<>>, <<>>, <<>>, Ok(<<df(msg)>>))

Call_icao == Called("icao", <<>>, <<>>, <<>>, Ok(<<icao(msg)>>))

Call_typecode == Called("typecode", <<>>, <<>>, <<>>, Ok(<<typecode(msg)>>))

Call_position ==
    \E tc1 \in 0..31, ts \in Timestamps, lat_ref \in OptRefs, lon_ref \in OptRefs :
        Called("position", WithTC(msg, tc1), ts, <<lat_ref, lon_ref>>,
               position(msg, WithTC(msg, tc1), ts[1], ts[2], lat_ref, lon_ref))

Call_position_with_ref ==
    \E lat_ref \in RefNumbers, lon_ref \in RefNumbers :
        Called("position_with_ref", <<>>, <<>>, <<<<lat_ref>>, <<lon_ref>>>>,
               position_with_ref(msg, lat_ref, lon_ref))

Call_altitude == Called("altitude", <<>>, <<>>, <<>>, altitude(msg))

Call_velocity == Called("velocity", <<>>, <<>>, <<>>, velocity(msg))

Call_speed_heading == Called("speed_heading", <<>>, <<>>, <<>>, speed_heading(msg))

Call_nic == Called("nic", <<>>, <<>>, <<>>, nic(msg))

Call_oe_flag == Called("oe_flag", <<>>, <<>>, <<>>, oe_flag(msg))

Call_nic_v1 ==
    \E b \in SupBits : Called("nic_v1", <<>>, <<b>>, <<>>, nic_v1(msg, b))

Call_nic_v2 ==
    \E a \in SupBits, b \in SupBits, c \in SupBits :
        Called("nic_v2", <<>>, <<a, b, c>>, <<>>, nic_v2(msg, a, b, c))

Call_nic_s == Called("nic_s", <<>>, <<>>, <<>>, nic_s(msg))

Call_nic_a_and_c == Called("nic_a_and_c", <<>>, <<>>, <<>>, nic_a_and_c(msg))

Call_nic_b == Called("nic_b", <<>>, <<>>, <<>>, nic_b(msg))

Call_nac_p == Called("nac_p", <<>>, <<>>, <<>>, nac_p(msg))

Call_nac_v == Called("nac_v", <<>>, <<>>, <<>>, nac_v(msg))

Call_sil ==
    \E v \in VersionArgs : Called("sil", <<>>, <<v>>, <<>>, sil(msg, v))

Call_version == Called("version", <<>>, <<>>, <<>>, version(msg))

\* the caller takes the outcome; the next call is on the next message
NextMessage ==
    /\ pc = "done"
    /\ pc' = "idle"
    /\ msg' = WithTC(msg, (typecode(msg) + 1) % 32)
    /\ fn' = ""
    /\ msg1' = <<>>
    /\ nums' = <<>>
    /\ refs' = <<>>
    /\ ret' = NoOutcome

Next ==
    \/ Call_df
    \/ Call_icao
    \/ Call_typecode
    \/ Call_position
    \/ Call_position_with_ref
    \/ Call_altitude
    \/ Call_velocity
    \/ Call_speed_heading
    \/ Call_nic
    \/ Call_oe_flag
    \/ Call_nic_v1
    \/ Call_nic_v2
    \/ Call_nic_s
    \/ Call_nic_a_and_c
    \/ Call_nic_b
    \/ Call_nac_p
    \/ Call_nac_v
    \/ Call_sil
    \/ Call_version
    \/ NextMessage

Spec == Init /\ [][Next]_vars

(***************************************************************************)
(* Reading a message bit by bit, for stating the properties                *)
(***************************************************************************)
\* bit i (0..111) of the binary expansion of message m, as a number
BitAt(m, i) == (HexVal(m[(i \div 4) + 1]) \div Pow2(3 - (i % 4))) % 2

\* the type code: bits 32..36
TCof(m) == 16 * BitAt(m, 32) + 8 * BitAt(m, 33) + 4 * BitAt(m, 34)
           + 2 * BitAt(m, 35) + BitAt(m, 36)

\* the 11-bit altitude field: bits 40..46 then 48..51
AltField(m) ==
    1024 * BitAt(m, 40) + 512 * BitAt(m, 41) + 256 * BitAt(m, 42)
    + 128 * BitAt(m, 43) + 64 * BitAt(m, 44) + 32 * BitAt(m, 45)
    + 16 * BitAt(m, 46) + 8 * BitAt(m, 48) + 4 * BitAt(m, 49)
    + 2 * BitAt(m, 50) + BitAt(m, 51)

\* message m with bit 53 (second bit of hex digit 13) inverted
FlipBit53(m) ==
    LET d == HexVal(m[14])
    IN  [m EXCEPT ![14] = HexChars[(IF (d \div 4) % 2 = 1 THEN d - 4 ELSE d + 4) + 1]]

AirborneTC == (9..18) \cup (20..22)

Done(name) == pc = "done" /\ fn = name

(***************************************************************************)
(* C1                                                                      *)
(***************************************************************************)
\* C1: for TC in 9..18 or 20..22, altitude(msg) is None when the Q-bit
\* (bit 47) is 0, and a number only when the Q-bit is 1.
C1_AltitudeNoneWhenQ0 ==
    (Done("altitude") /\ TCof(msg) \in AirborneTC)
        => /\ (BitAt(msg, 47) = 0 => ret = None)
           /\ (ret.st = "ok" => BitAt(msg, 47) = 1)

(***************************************************************************)
(* C2                                                                      *)
(***************************************************************************)
\* C2: for TC in {29, 31} and every version argument, sil(msg, version)
\* returns (sil, sils) without an error: sil is the 2-bit field of the
\* binary expansion (bits 76..77 for TC 29, bits 82..83 for TC 31), sils is
\* one bit when version = 2 and -1 when version is 0 or 1.
C2_SilReturnsPair ==
    (Done("sil") /\ TCof(msg) \in {29, 31})
        => /\ ret.st = "ok"
           /\ Len(ret.v) = 2
           /\ ret.v[1] = (IF TCof(msg) = 29
                          THEN 2 * BitAt(msg, 76) + BitAt(msg, 77)
                          ELSE 2 * BitAt(msg, 82) + BitAt(msg, 83))
           /\ (nums[1] = 2 => ret.v[2] \in {0, 1})
           /\ (nums[1] \in {0, 1} => ret.v[2] = -1)

(***************************************************************************)
(* C3                                                                      *)
(***************************************************************************)
\* C3: with both TCs in 5..8, position() signals the missing-reference
\* error if and only if lat_ref or lon_ref is absent; with both supplied,
\* whatever their values, it returns the surface paired solver's result for
\* those coordinates.
C3_SurfaceNeedsRefOnlyWhenAbsent ==
    (Done("position") /\ TCof(msg) \in 5..8 /\ TCof(msg1) \in 5..8)
        => /\ (ret.st = ErrRefRequired <=> (refs[1] = <<>> \/ refs[2] = <<>>))
           /\ (refs[1] # <<>> /\ refs[2] # <<>>
                 => ret = Returns("surface_position", msg, msg1,
                                  <<nums[1], nums[2], refs[1][1], refs[2][1]>>))

(***************************************************************************)
(* C4                                                                      *)
(***************************************************************************)
SameBand(tc0, tc1) ==
    \/ tc0 \in 5..8 /\ tc1 \in 5..8
    \/ tc0 \in 9..18 /\ tc1 \in 9..18
    \/ tc0 \in 20..22 /\ tc1 \in 20..22

\* C4: position() returns a solver's result only when both TCs lie in the
\* same band 5..8, 9..18 or 20..22: the surface solver for 5..8, the airborne
\* solver for the other two whatever the reference; every other TC pair
\* signals the inconsistent-message error and no solver is called.
C4_PositionBands ==
    Done("position") =>
        LET tc0 == TCof(msg)
            tc1 == TCof(msg1)
        IN  /\ (ret.st = "ret" => SameBand(tc0, tc1))
            /\ (ret.st = "ret" /\ tc0 \in 5..8 => ret.callee = "surface_position")
            /\ (SameBand(tc0, tc1) /\ tc0 \notin 5..8
                  => ret = Returns("airborne_position", msg, msg1, nums))
            /\ (~SameBand(tc0, tc1) => ret = Raise(ErrInconsistent))

C4_Witness ==
    /\ Done("position")
    /\ TCof(msg) = 6
    /\ TCof(msg1) = 11
    /\ ret = Raise(ErrInconsistent)

(***************************************************************************)
(* C5                                                                      *)
(***************************************************************************)
NicV1Table(tc, b) ==
    CASE tc \in {8, 18, 22} -> 0
      [] tc = 17 -> 1
      [] tc = 16 -> (IF b = 1 THEN 3 ELSE 2)
      [] tc = 15 -> 4
      [] tc = 14 -> 5
      [] tc = 13 -> 6
      [] tc = 12 -> 7
      [] tc = 11 -> (IF b = 1 THEN 9 ELSE 8)
      [] tc \in {6, 10, 21} -> 10
      [] tc \in {5, 9, 20} -> 11
      [] tc = 7 -> (IF b = 1 THEN 9 ELSE 8)
      [] tc = 19 -> -1

NicV2Table(tc, a, c) ==
    CASE tc \in {18, 22} -> 0
      [] tc = 17 -> 1
      [] tc = 16 -> (IF a = 1 THEN 3 ELSE 2)
      [] tc = 15 -> 4
      [] tc = 14 -> 5
      [] tc = 13 -> 6
      [] tc = 12 -> 7
      [] tc = 11 -> (IF a = 1 THEN 9 ELSE 8)
      [] tc \in {6, 10, 21} -> 10
      [] tc \in {5, 9, 20} -> 11
      [] tc = 8 -> (IF a = 1 /\ c = 1 THEN 7
                    ELSE IF a = 1 \/ c = 1 THEN 6 ELSE 0)
      [] tc = 7 -> (IF a = 1 THEN 9 ELSE 8)
      [] tc = 19 -> -1

\* C5: for every TC in 5..22 and all supplement bits, nic_v1 and nic_v2
\* return the value of the version-1 and version-2 tables; the nic_v2 value
\* does not depend on nic_b, and TC 13 gives 6 for every supplement value.
C5_NicV1V2Tables ==
    /\ (Done("nic_v1") /\ TCof(msg) \in 5..22)
         => ret = Ok(<<NicV1Table(TCof(msg), nums[1])>>)
    /\ (Done("nic_v2") /\ TCof(msg) \in 5..22)
         => /\ ret = Ok(<<NicV2Table(TCof(msg), nums[1], nums[3])>>)
            /\ \A b \in SupBits : nic_v2(msg, nums[1], b, nums[3]) = ret
    /\ (pc = "done" /\ fn \in {"nic_v1", "nic_v2"} /\ TCof(msg) = 13)
         => ret = Ok(<<6>>)

C5_Witness ==
    /\ Done("nic_v2")
    /\ TCof(msg) = 8
    /\ nums = <<1, 0, 1>>
    /\ ret = Ok(<<7>>)

(***************************************************************************)
(* C6                                                                      *)
(***************************************************************************)
NicTable(tc, b) ==
    CASE tc = 18 -> 0
      [] tc = 17 -> 1
      [] tc = 16 -> (IF b = 1 THEN 3 ELSE 2)
      [] tc = 15 -> 4
      [] tc = 14 -> 5
      [] tc = 13 -> 6
      [] tc = 12 -> 7
      [] tc = 11 -> (IF b = 1 THEN 9 ELSE 8)
      [] tc = 10 -> 10
      [] tc = 9 -> 11

\* C6: for TC in 9..18, nic(msg) is a value in 0..11 or -1 fixed by the TC
\* and the NICb bit (bit 39) alone, following the table.
C6_NicFromTCAndNICb ==
    (Done("nic") /\ TCof(msg) \in 9..18)
        => /\ ret = Ok(<<NicTable(TCof(msg), BitAt(msg, 39))>>)
           /\ ret.v[1] \in (0..11) \cup {-1}

C6_Witness ==
    /\ Done("nic")
    /\ TCof(msg) = 11
    /\ BitAt(msg, 39) = 1
    /\ ret = Ok(<<9>>)

(***************************************************************************)
(* C7                                                                      *)
(***************************************************************************)
\* the TCs each decode function accepts
Domain(name) ==
    CASE name = "altitude" -> (5..22) \ {19}
      [] name \in {"velocity", "speed_heading"} -> (5..8) \cup {19}
      [] name = "position_with_ref" -> (5..18) \cup (20..22)
      [] name \in {"nic", "nic_b"} -> 9..18
      [] name \in {"nic_v1", "nic_v2"} -> 5..22
      [] name \in {"nic_s", "nic_a_and_c"} -> {31}
      [] name \in {"nac_p", "sil", "version"} -> {29, 31}
      [] name = "nac_v" -> {19}

DomainChecked == {"altitude", "velocity", "speed_heading", "position_with_ref",
                  "nic", "nic_b", "nic_v1", "nic_v2", "nic_s", "nic_a_and_c",
                  "nac_p", "sil", "version", "nac_v"}

\* C7: every decode function signals an error, and returns no value, for
\* every message whose TC is outside its domain.
C7_OutOfDomainRaises ==
    (pc = "done" /\ fn \in DomainChecked /\ TCof(msg) \notin Domain(fn))
        => IsError(ret) /\ ret.v = <<>> /\ ret.callee = ""

C7_Witness ==
    /\ Done("altitude")
    /\ TCof(msg) = 19
    /\ ret = Raise(ErrNotPosition)

(***************************************************************************)
(* C8                                                                      *)
(***************************************************************************)
\* C8 as stated: for TC in {29, 31}, version(msg) is 0, 1 or 2.
C8_VersionIs012 ==
    (Done("version") /\ TCof(msg) \in {29, 31})
        => ret.st = "ok" /\ ret.v[1] \in {0, 1, 2}

\* C8 as amended: for TC in {29, 31}, version(msg) is the value of the 3-bit
\* field at bits 72..74, one of 0..7.
C8_VersionIs3BitField ==
    (Done("version") /\ TCof(msg) \in {29, 31})
        => /\ ret = Ok(<<4 * BitAt(msg, 72) + 2 * BitAt(msg, 73) + BitAt(msg, 74)>>)
           /\ ret.v[1] \in 0..7

C8_Witness ==
    /\ Done("version")
    /\ TCof(msg) = 31
    /\ ret.st = "ok"
    /\ ret.v[1] > 2

(***************************************************************************)
(* C9                                                                      *)
(***************************************************************************)
\* C9: for TC in 5..8 altitude(msg) is 0 whatever the Q-bit; for TC in
\* 9..18 or 20..22 with Q-bit 1 it is N*25 - 1000, N the 11-bit field of
\* bits 40..46 and 48..51.
C9_AltitudeValue ==
    /\ (Done("altitude") /\ TCof(msg) \in 5..8) => ret = Ok(<<0>>)
    /\ (Done("altitude") /\ TCof(msg) \in AirborneTC /\ BitAt(msg, 47) = 1)
         => ret = Ok(<<AltField(msg) * 25 - 1000>>)

C9_Witness ==
    /\ Done("altitude")
    /\ TCof(msg) \in AirborneTC
    /\ BitAt(msg, 47) = 1
    /\ AltField(msg) = 190
    /\ ret = Ok(<<3750>>)

(***************************************************************************)
(* C10                                                                     *)
(***************************************************************************)
\* the outcome of the call recorded in the state, made on message m instead
SameCallOn(m) ==
    CASE fn = "df" -> Ok(<<df(m)>>)
      [] fn = "icao" -> Ok(<<icao(m)>>)
      [] fn = "typecode" -> Ok(<<typecode(m)>>)
      [] fn = "altitude" -> altitude(m)
      [] fn = "velocity" -> velocity(m)
      [] fn = "nic" -> nic(m)
      [] fn = "oe_flag" -> oe_flag(m)
      [] fn = "nic_v1" -> nic_v1(m, nums[1])
      [] fn = "nic_v2" -> nic_v2(m, nums[1], nums[2], nums[3])
      [] fn = "nic_s" -> nic_s(m)
      [] fn = "nic_a_and_c" -> nic_a_and_c(m)
      [] fn = "nic_b" -> nic_b(m)
      [] fn = "nac_p" -> nac_p(m)
      [] fn = "nac_v" -> nac_v(m)
      [] fn = "sil" -> sil(m, nums[1])
      [] fn = "version" -> version(m)

SelfDecoded == {"df", "icao", "typecode", "altitude", "nic", "nic_v1", "nic_v2",
                "nic_s", "nic_a_and_c", "nic_b", "nac_p", "nac_v", "sil", "version"}

OeFlagToggles ==
    Done("oe_flag")
        => /\ ret.st = "ok"
           /\ ret.v[1] = BitAt(msg, 53)
           /\ SameCallOn(FlipBit53(msg)) = Ok(<<1 - ret.v[1]>>)

====
